---- MODULE Spec2Model ----
(***************************************************************************)
(* Model of the svb-data event pipeline: fetch_and_build.py (load, fetch,  *)
(* merge, sort, save) and its source adapters sources/lnsb_fetch.py,       *)
(* sources/livenotessb.py and sources/ticketmaster.py.                     *)
(*                                                                         *)
(* Representation.                                                         *)
(*  - A text that is searched with a regular expression is a sequence of   *)
(*    tokens [k, v, w]: k the kind ("num", "sp", "dash", "colon", "am",    *)
(*    "pm", "AM", "PM", "word"), v the value of a number, w its number of  *)
(*    digits.                                                              *)
(*  - A datetime is [day, min]: a day number and the minute of the day.    *)
(*  - An ISO-8601 string "YYYY-MM-DDTHH:MM:SS+hh:00" is [day, min, off];   *)
(*    IsoLess is the order Python's string comparison gives such strings.  *)
(*  - An event dict is a function from its keys to values.                 *)
(***************************************************************************)
EXTENDS Integers, Sequences, FiniteSets, TLC

VARIABLES
    file,       \* events.json: [form, rows]
    today,      \* day number of the wall clock
    run,        \* what the last run of main() did
    env,        \* what the imports of fetch_and_build.py bound
    mExisting,  \* merge_dedupe called on its own: first argument
    mIncoming,  \* second argument
    mResult,    \* its result
    call,       \* last call of a source function: name and inputs
    ret,        \* and what it returned or raised
    tmPc,       \* ticketmaster.fetch: position in the pagination loop
    tmLocs,     \* locations not yet finished
    tmPage,     \* page
    tmOut,      \* out
    tmLog       \* requests made for the location being fetched, with their answers

vars == <<file, today, run, env, mExisting, mIncoming, mResult,
          call, ret, tmPc, tmLocs, tmPage, tmOut, tmLog>>

pipeVars  == <<file, today, run, env>>
mergeVars == <<mExisting, mIncoming, mResult>>
srcVars   == <<call, ret>>
tmVars    == <<tmPc, tmLocs, tmPage, tmOut, tmLog>>

----------------------------------------------------------------------------
(* Bounds *)
MaxDay   == 2   \* the clock runs from day 0 to day MaxDay
MaxPage  == 1   \* lines on the scraped page
MaxFile  == 1   \* rows of the initial events.json
MaxRuns  == 2   \* runs of main() in one behaviour
MaxMerge == 2   \* length of each argument of a direct merge_dedupe call
MaxTotalPages == 3   \* largest totalPages the Ticketmaster server reports
MaxLocs  == 2   \* locations handed to ticketmaster.fetch
MaxEls   == 2   \* elements of the page handed to livenotessb.fetch
MaxLoad  == 3   \* rows of a file handed to load_events on its own

\* the result of a call that has not returned yet
Pending == [status |-> "pending"]

----------------------------------------------------------------------------
(* Tokens and texts *)
Num(n)  == [k |-> "num", v |-> n, w |-> IF n < 10 THEN 1 ELSE 2]
Min2(n) == [k |-> "num", v |-> n, w |-> 2]
Sym(s)  == [k |-> s, v |-> 0, w |-> 0]
Sp    == Sym("sp")
Dash  == Sym("dash")
Colon == Sym("colon")

\* str.lower() on a token
LowerTok(t) ==
    IF t.k = "AM" THEN Sym("am") ELSE IF t.k = "PM" THEN Sym("pm") ELSE t

LowerText(s) == [i \in 1..Len(s) |-> LowerTok(s[i])]

\* str.strip(): drop leading and trailing whitespace
RECURSIVE LStrip(_)
LStrip(s) == IF s # <<>> /\ Head(s).k = "sp" THEN LStrip(Tail(s)) ELSE s

RECURSIVE RStrip(_)
RStrip(s) ==
    IF s # <<>> /\ s[Len(s)].k = "sp" THEN RStrip(SubSeq(s, 1, Len(s) - 1)) ELSE s

Strip(s) == RStrip(LStrip(s))

\* \s* from position i: the first position that is not whitespace
RECURSIVE SkipSp(_, _)
SkipSp(s, i) == IF i <= Len(s) /\ s[i].k = "sp" THEN SkipSp(s, i + 1) ELSE i

\* \d{1,2} at position i
IsNum(s, i) == i <= Len(s) /\ s[i].k = "num" /\ s[i].w <= 2

\* (?::(\d{2})) at position i
HasMin(s, i) ==
    i + 1 <= Len(s) /\ s[i].k = "colon" /\ s[i + 1].k = "num" /\ s[i + 1].w = 2

NoMatch == [ok |-> FALSE, g1 |-> -1, g2 |-> -1, g3 |-> -1, g4 |-> -1,
            g5 |-> "", from |-> 0, to |-> 0]

----------------------------------------------------------------------------
(* sources/lnsb_fetch.py: parse_event_time *)

\* the pattern of line 140 at position i:
\*   (\d{1,2})(?::(\d{2}))?\s*(?:-\s*(\d{1,2})(?::(\d{2}))?)?\s*(am|pm)
\* The optional groups are greedy; giving one back never helps, because what
\* follows the point where the group starts (":" or "-") is not whitespace,
\* "am" or "pm".
TimePatAt(s, i) ==
    IF ~IsNum(s, i) THEN NoMatch
    ELSE LET m1   == HasMin(s, i + 1)
             a    == IF m1 THEN i + 3 ELSE i + 1
             b    == SkipSp(s, a)
             rn   == SkipSp(s, b + 1)
             hasR == b <= Len(s) /\ s[b].k = "dash" /\ IsNum(s, rn)
             m2   == hasR /\ HasMin(s, rn + 1)
             c    == IF hasR THEN (IF m2 THEN rn + 3 ELSE rn + 1) ELSE a
             d    == SkipSp(s, c)
         IN  IF d <= Len(s) /\ s[d].k \in {"am", "pm"}
             THEN [ok |-> TRUE,
                   g1 |-> s[i].v,
                   g2 |-> IF m1 THEN s[i + 2].v ELSE -1,
                   g3 |-> IF hasR THEN s[rn].v ELSE -1,
                   g4 |-> IF m2 THEN s[rn + 2].v ELSE -1,
                   g5 |-> s[d].k, from |-> i, to |-> d]
             ELSE NoMatch

\* re.search with the pattern of line 140: the match at the first position that has one
RECURSIVE TimeSearch(_, _)
TimeSearch(s, i) ==
    IF i > Len(s) THEN NoMatch
    ELSE IF TimePatAt(s, i).ok THEN TimePatAt(s, i)
    ELSE TimeSearch(s, i + 1)

\* datetime.weekday(): Monday is 0; day 0 of the model is a Wednesday
Weekday(d) == (d + 2) % 7

\* date_str.upper() on the header words the model uses
Upper(w) ==
    CASE w = "Monday"  -> "MONDAY"
      [] w = "tuesday" -> "TUESDAY"
      [] OTHER         -> w

\* lines 123-133: only MONDAY and TUESDAY move the date
DaysAhead(target, now) ==
    IF (target - Weekday(now.day)) % 7 = 0 THEN 7
    ELSE (target - Weekday(now.day)) % 7

EventDate(date_str, now) ==
    IF Upper(date_str) = "MONDAY"
    THEN [day |-> now.day + DaysAhead(0, now), min |-> now.min]
    ELSE IF Upper(date_str) = "TUESDAY"
    THEN [day |-> now.day + DaysAhead(1, now), min |-> now.min]
    ELSE now

\* datetime + timedelta(minutes = n)
AddMin(t, n) == [day |-> t.day + ((t.min + n) \div 1440), min |-> (t.min + n) % 1440]

\* datetime.replace(hour, minute, second=0, microsecond=0); ValueError when
\* the hour or the minute is out of range
ReplaceOk(h, m) == h \in 0..23 /\ m \in 0..59
Replace(t, h, m) == [day |-> t.day, min |-> 60 * h + m]

\* datetime <= datetime
DtLeq(a, b) == a.day < b.day \/ (a.day = b.day /\ a.min <= b.min)

\* lines 148-151 and 160-163
To24(h, period) ==
    IF period = "pm" /\ h # 12 THEN h + 12
    ELSE IF period = "am" /\ h = 12 THEN 0
    ELSE h

\* strftime("%Y-%m-%dT%H:%M:%S-07:00")
TzOffset == -7
Iso(t) == [day |-> t.day, min |-> t.min, off |-> TzOffset]

\* lines 175-177: the end is made to lie after the start
FixEnd(start_time, end_time) ==
    IF DtLeq(end_time, start_time) THEN AddMin(start_time, 120) ELSE end_time

parse_event_time(now, date_str, time_str) ==
    LET event_date == EventDate(date_str, now)
        m          == TimeSearch(Strip(LowerText(time_str)), 1)
        start_hour == To24(m.g1, m.g5)
        start_min  == IF m.g2 >= 0 THEN m.g2 ELSE 0
        end_hour   == To24(m.g3, m.g5)
        end_min    == IF m.g4 >= 0 THEN m.g4 ELSE 0
        raises     == m.ok /\ (~ReplaceOk(start_hour, start_min)
                               \/ (m.g3 >= 0 /\ ~ReplaceOk(end_hour, end_min)))
        start_time == IF m.ok THEN Replace(event_date, start_hour, start_min)
                      ELSE Replace(event_date, 19, 0)
        end_time   == IF ~m.ok THEN Replace(event_date, 21, 0)
                      ELSE IF m.g3 >= 0 THEN Replace(event_date, end_hour, end_min)
                      ELSE AddMin(start_time, 120)
        default    == [day |-> now.day + 1, min |-> now.min]
    IN  IF raises
        THEN [start |-> Iso(Replace(default, 19, 0)),
              end   |-> Iso(Replace(default, 21, 0))]
        ELSE [start |-> Iso(start_time),
              end   |-> Iso(FixEnd(start_time, end_time))]

----------------------------------------------------------------------------
(* sources/lnsb_fetch.py: lnsb_fetch *)

\* the outcomes of an HTTP request
HttpOutcomes == {"ok", "timeout", "connection", "status", "malformed"}

\* requests.get raises on these; raise_for_status raises on "status"
TransportFails(http) == http \in {"timeout", "connection"}

LowerCh(c) ==
    CASE c = "S" -> "s"
      [] c = "M" -> "m"
      [] c = "A" -> "a"
      [] OTHER   -> c

LowerStr(v) == [i \in 1..Len(v) |-> LowerCh(v[i])]

\* sub in s
HasSub(s, sub) ==
    \E i \in 1..(Len(s) - Len(sub) + 1) : SubSeq(s, i, i + Len(sub) - 1) = sub

\* str.replace(c, d) for one character c; d is a string of length 0 or 1
RECURSIVE ReplaceCh(_, _, _)
ReplaceCh(s, c, d) ==
    IF s = <<>> THEN <<>>
    ELSE (IF Head(s) = c THEN d ELSE <<Head(s)>>) \o ReplaceCh(Tail(s), c, d)

\* s[:n]
Prefix(s, n) == SubSeq(s, 1, IF Len(s) < n THEN Len(s) ELSE n)

VenueSlugLen == 30

\* line 305: venue_name.lower().replace(' ', '-').replace('(', '').replace(')', '')[:30]
VenueSlug(venue_name) ==
    Prefix(ReplaceCh(ReplaceCh(ReplaceCh(LowerStr(venue_name), " ", <<"-">>),
                               "(", <<>>), ")", <<>>), VenueSlugLen)

\* the pattern of line 282 at position i (re.IGNORECASE):
\*   (\d{1,2}(?::\d{2})?\s*(?:am|pm)(?:\s*-\s*\d{1,2}(?::\d{2})?\s*(?:am|pm))?)
IsAmPm(s, i) == i <= Len(s) /\ s[i].k \in {"am", "pm", "AM", "PM"}

LinePatAt(s, i) ==
    IF ~IsNum(s, i) THEN NoMatch
    ELSE LET a  == IF HasMin(s, i + 1) THEN i + 3 ELSE i + 1
             b  == SkipSp(s, a)
             p  == SkipSp(s, b + 1)
             q  == SkipSp(s, p + 1)
             c  == IF HasMin(s, q + 1) THEN q + 3 ELSE q + 1
             r  == SkipSp(s, c)
             tail == p <= Len(s) /\ s[p].k = "dash" /\ IsNum(s, q) /\ IsAmPm(s, r)
         IN  IF IsAmPm(s, b)
             THEN [NoMatch EXCEPT !.ok = TRUE, !.from = i,
                                  !.to = IF tail THEN r ELSE b]
             ELSE NoMatch

\* re.search with the pattern of line 282: the match at the first position that has one
RECURSIVE LineSearch(_, _)
LineSearch(s, i) ==
    IF i > Len(s) THEN NoMatch
    ELSE IF LinePatAt(s, i).ok THEN LinePatAt(s, i)
    ELSE LineSearch(s, i + 1)

\* str.replace(sub, ''): every occurrence of sub is removed, left to right
RECURSIVE RemoveAll(_, _)
RemoveAll(s, sub) ==
    IF sub = <<>> \/ Len(s) < Len(sub) THEN s
    ELSE IF SubSeq(s, 1, Len(sub)) = sub
    THEN RemoveAll(SubSeq(s, Len(sub) + 1, Len(s)), sub)
    ELSE <<Head(s)>> \o RemoveAll(Tail(s), sub)

\* re.sub(r'\s+', ' ', s): runs of whitespace become one space
RECURSIVE CollapseSp(_)
CollapseSp(s) ==
    IF Len(s) < 2 THEN s
    ELSE IF s[1].k = "sp" /\ s[2].k = "sp" THEN CollapseSp(Tail(s))
    ELSE <<Head(s)>> \o CollapseSp(Tail(s))

\* lines 264-266: a venue that contains "am" or "pm" is taken for a time
VenueLooksLikeTime(venue_name) ==
    HasSub(LowerStr(venue_name), <<"p", "m">>) \/ HasSub(LowerStr(venue_name), <<"a", "m">>)

DefaultTimeInfo == <<Num(7), Colon, Min2(30), Sp, Sym("pm")>>   \* "7:30 pm"
LiveMusicAt     == <<Sym("live-music-at-venue")>>

\* lines 269-316: the event of one "venue: event" line
LineEvent(line, now) ==
    LET m           == LineSearch(line.info, 1)
        time_info   == IF m.ok THEN SubSeq(line.info, m.from, m.to) ELSE <<>>
        artist0     == IF m.ok THEN Strip(RemoveAll(line.info, time_info))
                       ELSE line.info
        artist1     == Strip(CollapseSp(artist0))
        artist_info == IF artist1 = <<>> THEN LiveMusicAt ELSE artist1
        t           == parse_event_time(now, "",
                           IF time_info = <<>> THEN DefaultTimeInfo ELSE time_info)
    IN  [id    |-> [src |-> "lnsb", day |-> now.day, slug |-> VenueSlug(line.venue)],
         title |-> [venue |-> line.venue, artist |-> artist_info],
         start |-> t.start,
         end   |-> t.end,
         venue |-> line.venue]

\* lines 245-266: the lines that are not taken for an event
LineSkipped(line) ==
    line.kind # "pair" \/ VenueLooksLikeTime(line.venue)

EventLimit == 20

\* lines 243-323: the loop over the lines, stopped at EventLimit events
RECURSIVE LnsbLoop(_, _, _)
LnsbLoop(lines, now, events) ==
    IF lines = <<>> \/ Len(events) >= EventLimit THEN events
    ELSE IF LineSkipped(Head(lines)) THEN LnsbLoop(Tail(lines), now, events)
    ELSE LnsbLoop(Tail(lines), now, Append(events, LineEvent(Head(lines), now)))

\* lines 220-334: every exception inside ends in "return []"
lnsb_fetch(http, lines, now) ==
    IF TransportFails(http) \/ http = "status"
    THEN [raised |-> FALSE, events |-> <<>>]
    ELSE [raised |-> FALSE, events |-> LnsbLoop(lines, now, <<>>)]

----------------------------------------------------------------------------
(* sources/livenotessb.py *)

\* TIME_RE at position i (re.I): (\d{1,2})(?::(\d{2}))?\s*(am|pm)
IsoPatAt(s, i) ==
    IF ~IsNum(s, i) THEN NoMatch
    ELSE LET m1 == HasMin(s, i + 1)
             b  == SkipSp(s, IF m1 THEN i + 3 ELSE i + 1)
         IN  IF IsAmPm(s, b)
             THEN [NoMatch EXCEPT !.ok = TRUE, !.g1 = s[i].v,
                                  !.g2 = IF m1 THEN s[i + 2].v ELSE -1,
                                  !.g5 = LowerTok(s[b]).k, !.from = i, !.to = b]
             ELSE NoMatch

\* re.search with TIME_RE: the match at the first position that has one
RECURSIVE IsoSearch(_, _)
IsoSearch(s, i) ==
    IF i > Len(s) THEN NoMatch
    ELSE IF IsoPatAt(s, i).ok THEN IsoPatAt(s, i)
    ELSE IsoSearch(s, i + 1)

IsLeap(y) == (y % 4 = 0 /\ y % 100 # 0) \/ y % 400 = 0

DaysInMonth(y, m) ==
    IF m = 2 THEN (IF IsLeap(y) THEN 29 ELSE 28)
    ELSE IF m \in {4, 6, 9, 11} THEN 30 ELSE 31

\* lines 42-59: [raised |-> TRUE] stands for ValueError
_iso(raw_date, raw_time) ==
    LET m    == IsoSearch(raw_time, 1)
        hour == IF m.g5 = "pm" /\ m.g1 # 12 THEN m.g1 + 12 ELSE m.g1
        minute == IF m.g2 >= 0 THEN m.g2 ELSE 0
    IN  IF ~m.ok \/ raw_date.d > DaysInMonth(raw_date.y, raw_date.m)
           \/ ~ReplaceOk(hour, minute)
        THEN [raised |-> TRUE, iso |-> <<>>]
        ELSE [raised |-> FALSE,
              iso |-> [y |-> raw_date.y, m |-> raw_date.m, d |-> raw_date.d,
                       min |-> 60 * hour + minute, off |-> TzOffset]]

AlnumLower == {"s", "o", "h", "m", "a", "n", "e", "v", "t", "1", "2"}

\* unicodedata.normalize("NFKD").encode("ascii", "ignore"): the base letter of
\* an accented letter is kept, any other non-ASCII character is dropped
\* ("n-tilde" is U+00F1, "note" is U+266A)
AsciiFold(c) ==
    CASE c = "n-tilde" -> <<"n">>
      [] c = "note"    -> <<>>
      [] OTHER   -> <<c>>

RECURSIVE FoldStr(_)
FoldStr(s) == IF s = <<>> THEN <<>> ELSE AsciiFold(Head(s)) \o FoldStr(Tail(s))

\* re.sub(r"[^a-zA-Z0-9]+", "-", text): each run of other characters is one "-"
RECURSIVE Hyphenate(_, _)
Hyphenate(s, inRun) ==
    IF s = <<>> THEN <<>>
    ELSE IF LowerCh(Head(s)) \in AlnumLower
    THEN <<Head(s)>> \o Hyphenate(Tail(s), FALSE)
    ELSE (IF inRun THEN <<>> ELSE <<"-">>) \o Hyphenate(Tail(s), TRUE)

\* str.strip("-")
RECURSIVE StripHyphen(_)
StripHyphen(s) ==
    IF s # <<>> /\ Head(s) = "-" THEN StripHyphen(Tail(s))
    ELSE IF s # <<>> /\ s[Len(s)] = "-" THEN StripHyphen(SubSeq(s, 1, Len(s) - 1))
    ELSE s

SlugMaxLen == 40
EventWord == <<"e", "v", "e", "n", "t">>

\* lines 62-66
_slug(text) ==
    LET t == Prefix(LowerStr(StripHyphen(Hyphenate(FoldStr(text), FALSE))), SlugMaxLen)
    IN  IF t = <<>> THEN EventWord ELSE t

\* lines 92-126: the event of one <p>, or none
BulletEvents(el, date) ==
    IF ~el.bullet \/ Len(el.bits) < 2 THEN <<>>
    ELSE LET venue  == el.bits[1].s
             title  == el.bits[2].s
             time_s == el.bits[Len(el.bits)].t
             r      == _iso(date, time_s)
         IN  IF r.raised THEN <<>>
             ELSE << [id    |-> [src |-> "lnsb",
                                 date |-> [y |-> r.iso.y, m |-> r.iso.m, d |-> r.iso.d],
                                 slug |-> _slug(title)],
                      title |-> title,
                      start |-> r.iso,
                      venue |-> venue] >>

\* lines 89-91: the elements after a heading up to the next <h4> or <hr>
RECURSIVE SectionEvents(_, _)
SectionEvents(els, date) ==
    IF els = <<>> \/ Head(els).tag \in {"h4", "hr"} THEN <<>>
    ELSE BulletEvents(Head(els), date) \o SectionEvents(Tail(els), date)

\* line 76: dt.datetime.now().year
today_year(now) == now.y

\* line 85: hdr_txt.split(en dash)[-1].strip() keeps the part after the last
\* dash, "<Month> <Day>"; the weekday part before it is dropped
HeaderParts(h4) == [m |-> h4.month, d |-> h4.dom]

\* lines 79-126: the loop over the <h4> headings
RECURSIVE HeadingLoop(_, _)
HeadingLoop(els, year) ==
    IF els = <<>> THEN <<>>
    ELSE (IF Head(els).tag = "h4" /\ Head(els).isdate
          THEN SectionEvents(Tail(els),
                   [y |-> year, m |-> HeaderParts(Head(els)).m,
                    d |-> HeaderParts(Head(els)).d])
          ELSE <<>>)
         \o HeadingLoop(Tail(els), year)

\* lines 29-33 and 69-129: _download is not guarded, so what requests.get
\* raises leaves fetch; a page with an error status is parsed like any other
livenotessb_fetch(http, els, year) ==
    IF TransportFails(http) THEN [raised |-> TRUE, events |-> <<>>]
    ELSE [raised |-> FALSE, events |-> HeadingLoop(els, year)]

----------------------------------------------------------------------------
(* sources/ticketmaster.py *)

\* datetime + timedelta on a timezone-aware datetime, then isoformat()
IsoAddMin(t, n) ==
    [day |-> t.day + ((t.min + n) \div 1440), min |-> (t.min + n) % 1440, off |-> t.off]

GuessedHours == 3

\* lines 28-49 with filter(None, ...) of line 66: an event that cannot be
\* mapped is dropped
_map(ev) ==
    IF ev.complete
    THEN << [id    |-> ev.id,
             title |-> ev.name,
             start |-> ev.dateTime,
             end   |-> IsoAddMin(ev.dateTime, 60 * GuessedHours)] >>
    ELSE <<>>

RECURSIVE MapAll(_)
MapAll(evs) == IF evs = <<>> THEN <<>> ELSE _map(Head(evs)) \o MapAll(Tail(evs))

\* line 67 with "page >= totalPages" in place of "page >= totalPages - 1"
TotalPages_OneMore(resp) == IF resp.hasTotal THEN resp.totalPages + 1 ELSE 0
\* data.get("page", {}).get("totalPages", 0)
TotalPages(resp) == IF resp.hasTotal THEN resp.totalPages ELSE 0

\* lines 52-58: the call, up to the first request
TmFetchStart ==
    /\ call.fn = "ticketmaster.fetch" /\ ret = Pending /\ tmPc = "idle"
    /\ IF ~call.api_key \/ call.locs = <<>>
       THEN /\ tmPc' = "done"
            /\ ret' = [raised |-> FALSE, events |-> <<>>]
            /\ UNCHANGED <<tmLocs, tmPage>>
       ELSE /\ tmPc' = "request"
            /\ tmLocs' = call.locs
            /\ tmPage' = 0
            /\ UNCHANGED ret
    /\ UNCHANGED <<tmOut, tmLog, call, pipeVars, mergeVars>>

\* the "break" of lines 63 and 68: on to the next location, or return out
TmBreak(out) ==
    IF Tail(tmLocs) = <<>>
    THEN /\ tmPc' = "done"
         /\ ret' = [raised |-> FALSE, events |-> out]
         /\ UNCHANGED <<tmLocs, tmPage>>
    ELSE /\ tmLocs' = Tail(tmLocs)
         /\ tmPage' = 0
         /\ UNCHANGED <<tmPc, ret>>

\* the position in cities_or_zips of the location being fetched
LocIndex == Len(call.locs) - Len(tmLocs) + 1

\* line 60: the request for page tmPage of the location, and its answer
Requested(resp) ==
    [loc |-> LocIndex, name |-> Head(tmLocs), page |-> tmPage, kind |-> resp.kind,
     hasTotal |-> resp.hasTotal, totalPages |-> resp.totalPages]

\* lines 59-69: one pass of the loop body, with the server's answer resp
TmRequest(resp) ==
    /\ tmPc = "request"
    /\ tmLog' = IF tmPage = 0 THEN <<Requested(resp)>>
                 ELSE Append(tmLog, Requested(resp))
    /\ CASE resp.kind \in {"timeout", "connection", "malformed"} ->
              \* requests.get or r.json() raises; nothing catches it
              /\ tmPc' = "raised"
              /\ ret' = [raised |-> TRUE, events |-> <<>>]
              /\ UNCHANGED <<tmLocs, tmPage, tmOut>>
         [] resp.kind = "status" ->
              /\ TmBreak(tmOut)
              /\ UNCHANGED tmOut
         [] resp.kind = "ok" ->
              /\ tmOut' = tmOut \o MapAll(resp.events)
              /\ IF tmPage >= TotalPages(resp) - 1
                 THEN TmBreak(tmOut')
                 ELSE /\ tmPage' = tmPage + 1
                      /\ UNCHANGED <<tmPc, tmLocs, ret>>
    /\ UNCHANGED <<call, pipeVars, mergeVars>>

----------------------------------------------------------------------------
(* Inputs of the source functions *)

Single(h, p)           == <<Num(h), Sp, Sym(p)>>
SingleMin(h, m, p)     == <<Num(h), Colon, Min2(m), Sp, Sym(p)>>
Range1(h1, h2, p)      == <<Num(h1), Dash, Num(h2), Sp, Sym(p)>>
Range2(h1, p1, h2, p2) == <<Num(h1), Sp, Sym(p1), Dash, Num(h2), Sp, Sym(p2)>>
Garbage                == <<Sym("word")>>

Hours == 1..12

TimeTexts ==
    {Range1(h1, h2, p) : h1 \in Hours, h2 \in Hours, p \in {"am", "pm", "PM"}}
    \cup {Range2(h1, "pm", h2, "am") : h1 \in {8, 9, 11}, h2 \in {12, 1}}
    \cup {Range2(10, "am", 2, "pm")}
    \cup {Single(h, p) : h \in {7, 12, 13}, p \in {"am", "pm"}}
    \cup {SingleMin(7, 30, "pm"), SingleMin(7, 75, "pm"), Garbage, <<>>,
          <<Sp>> \o Range1(5, 8, "pm") \o <<Sp>>}

DateStrs == {"", "Monday", "TUESDAY", "FRIDAY"}

Nows == [day : 0..MaxDay, min : {0, 1290}]

Soho   == <<"S", "o", "h", "o">>
MSpace == <<"M", " ", "(", "S", ")">>
Sam    == <<"S", "a", "m">>
Venues == {Soho, MSpace, Sam}

Artist == <<Sym("word"), Sp>>

PairLine(venue, text) == [kind |-> "pair", venue |-> venue, info |-> Artist \o text]
PlainLine == [kind |-> "plain", venue |-> <<>>, info |-> <<>>]
ShortLine == [kind |-> "short", venue |-> <<>>, info |-> <<>>]

\* the lines of a page handed to lnsb_fetch on its own
ProbeLines ==
    {PairLine(Soho, t) : t \in TimeTexts}
    \cup {PairLine(v, Single(7, "pm")) : v \in Venues}
    \cup {PlainLine, ShortLine}

RECURSIVE SeqsUpTo(_, _)
SeqsUpTo(S, n) ==
    IF n = 0 THEN {<<>>}
    ELSE SeqsUpTo(S, n - 1)
         \cup {Append(s, x) : s \in {t \in SeqsUpTo(S, n - 1) : Len(t) = n - 1}, x \in S}

----------------------------------------------------------------------------
(* Idle values of the variable groups a specification does not use *)
NoRun == [status |-> "none", n |-> 0]
PipeIdle  == /\ file = [form |-> "missing", rows |-> <<>>]
             /\ today = 0 /\ run = NoRun
             /\ env = [tm |-> FALSE, binding |-> "absent"]
MergeIdle == mExisting = <<>> /\ mIncoming = <<>> /\ mResult = Pending
SrcIdle   == call = [fn |-> "none"] /\ ret = [status |-> "none"]
TmIdle    == /\ tmPc = "idle" /\ tmLocs = <<>> /\ tmPage = 0
             /\ tmOut = <<>> /\ tmLog = <<>>

----------------------------------------------------------------------------
(* The source functions called on their own *)

ParseCalls ==
    {[fn |-> "parse_event_time", now |-> now, date_str |-> d, time_str |-> t] :
        now \in Nows, d \in DateStrs, t \in TimeTexts}

\* a venue or title of n + 1 characters whose last character is c
LongName(n, c) == [i \in 1..(n + 1) |-> IF i <= n THEN "A" ELSE c]

Band == <<Sym("band"), Sp>>
PairLineBy(venue, artist, text) == [PairLine(venue, text) EXCEPT !.info = artist \o text]

\* pages of two event lines: same venue with two artists, two venues that
\* differ in the character after the slug length, an hour no clock has
TwoLinePages ==
    LET ls == {PairLineBy(Soho, Artist, Single(7, "pm")),
               PairLineBy(Soho, Band, Single(7, "pm")),
               PairLineBy(MSpace, Artist, Single(7, "pm")),
               PairLineBy(LongName(VenueSlugLen, "1"), Artist, Single(7, "pm")),
               PairLineBy(LongName(VenueSlugLen, "2"), Artist, Single(7, "pm")),
               PairLineBy(Soho, Artist, Single(13, "pm"))}
    IN  {<<a, b>> : a \in ls, b \in ls}

LnsbCalls ==
    {[fn |-> "lnsb_fetch", now |-> now, http |-> http, lines |-> lines] :
        now \in Nows, http \in HttpOutcomes,
        lines \in SeqsUpTo(ProbeLines, 1) \cup TwoLinePages}

\* the page elements livenotessb.fetch walks: <h4>, <p>, <hr>
El(tag, isdate, month, dom, bullet, bits) ==
    [tag |-> tag, isdate |-> isdate, weekday |-> "", month |-> month, dom |-> dom,
     bullet |-> bullet, bits |-> bits]
\* "<WEEKDAY> - <Month> <Day>", the two parts joined by an en dash
H4DateOn(w, m, d) == [El("h4", TRUE, m, d, FALSE, <<>>) EXCEPT !.weekday = w]
H4Date(m, d) == H4DateOn("TUESDAY", m, d)
H4Other      == El("h4", FALSE, 0, 0, FALSE, <<>>)
Hr           == El("hr", FALSE, 0, 0, FALSE, <<>>)
Bit(s, t)    == [s |-> s, t |-> t]
Bullet(venue, title, time) ==
    El("p", FALSE, 0, 0, TRUE, <<Bit(venue, Garbage), Bit(title, Garbage), Bit(<<>>, time)>>)
Jane   == <<"n", "a", "n", " ", "note">>
Notes  == <<"note", "note">>
ProbeEls ==
    {H4Date(8, 5), H4DateOn("FRIDAY", 8, 5), H4Date(2, 30), H4Other, Hr,
     Bullet(Soho, Jane, Range1(5, 8, "pm")),
     Bullet(Soho, Notes, Single(12, "am")),
     Bullet(Soho, Jane, Garbage),
     El("p", FALSE, 0, 0, FALSE, <<>>),
     El("p", FALSE, 0, 0, TRUE, <<Bit(Soho, Garbage), Bit(Jane, Single(7, "PM"))>>)}

\* pages of one date heading and two bullets
TwoBulletPages ==
    LET bs == {Bullet(v, t, Single(7, "pm")) :
                  v \in {Soho, MSpace},
                  t \in {Jane, Notes, LongName(SlugMaxLen, "1"), LongName(SlugMaxLen, "2")}}
    IN  {<<H4Date(8, 5), a, b>> : a \in bs, b \in bs}

\* the days on which livenotessb.fetch runs: 1, 2 and 3 days after August 5
Todays == {[y |-> 2025, m |-> 8, d |-> d] : d \in {6, 7, 8}}
LivenotesCalls ==
    {[fn |-> "livenotessb.fetch", http |-> http, els |-> els, today |-> t] :
        http \in HttpOutcomes, t \in Todays,
        els \in SeqsUpTo(ProbeEls, MaxEls) \cup TwoBulletPages}

\* what the Ticketmaster server may answer
TmId(n) == [src |-> "tm", day |-> 0, slug |-> <<n>>]
TmRawEvents ==
    {[id |-> TmId("1"), name |-> "show", complete |-> TRUE,
      dateTime |-> [day |-> 1, min |-> 1380, off |-> 0]],
     [id |-> TmId("2"), name |-> "show", complete |-> FALSE,
      dateTime |-> [day |-> 0, min |-> 0, off |-> 0]]}
TmResponses ==
    {[kind |-> k, hasTotal |-> FALSE, totalPages |-> 0, events |-> <<>>] :
        k \in {"timeout", "connection", "status", "malformed"}}
    \cup {[kind |-> "ok", hasTotal |-> TRUE, totalPages |-> n, events |-> es] :
            n \in 0..MaxTotalPages, es \in SeqsUpTo(TmRawEvents, 1)}
    \cup {[kind |-> "ok", hasTotal |-> FALSE, totalPages |-> 0, events |-> es] :
            es \in SeqsUpTo(TmRawEvents, 1)}
TmCalls ==
    {[fn |-> "ticketmaster.fetch", api_key |-> k, locs |-> locs] :
        k \in BOOLEAN, locs \in SeqsUpTo({"Santa Barbara", "93101"}, MaxLocs)}

CallParseEventTime ==
    /\ call.fn = "parse_event_time" /\ ret = Pending
    /\ ret' = parse_event_time(call.now, call.date_str, call.time_str)
    /\ UNCHANGED <<call, pipeVars, mergeVars, tmVars>>

CallLnsbFetch ==
    /\ call.fn = "lnsb_fetch" /\ ret = Pending
    /\ ret' = lnsb_fetch(call.http, call.lines, call.now)
    /\ UNCHANGED <<call, pipeVars, mergeVars, tmVars>>

CallLivenotesFetch ==
    /\ call.fn = "livenotessb.fetch" /\ ret = Pending
    /\ ret' = livenotessb_fetch(call.http, call.els, today_year(call.today))
    /\ UNCHANGED <<call, pipeVars, mergeVars, tmVars>>

TmStep == \E resp \in TmResponses : TmRequest(resp)

InitSources ==
    /\ PipeIdle /\ MergeIdle /\ TmIdle
    /\ call \in ParseCalls \cup LnsbCalls \cup LivenotesCalls \cup TmCalls
    /\ ret = Pending
NextSources ==
    \/ CallParseEventTime
    \/ CallLnsbFetch
    \/ CallLivenotesFetch
    \/ TmFetchStart
    \/ TmStep
SpecSources == InitSources /\ [][NextSources]_vars

----------------------------------------------------------------------------
(* ticketmaster.fetch called on its own *)

InitTm ==
    /\ PipeIdle /\ MergeIdle /\ TmIdle
    /\ call \in TmCalls
    /\ ret = Pending
NextTm == TmFetchStart \/ TmStep

\* fetch runs to its end without waiting on anything but the server, and
\* requests.get(..., timeout=30) answers or raises: each step is taken
SpecTm == InitTm /\ [][NextTm]_vars /\ WF_vars(TmFetchStart) /\ WF_vars(TmStep)

----------------------------------------------------------------------------
(* fetch_and_build.py *)

\* lines 46-64.  form: "missing" (no file), "wrapped" ({generated, events}),
\* "flat" (a bare array), "badwrapped" (starts with "{" but is not JSON),
\* "badflat" (anything else that is not JSON: json.loads raises)
\* line 64 with "generated" in ev.keys() in place of the equality
OnlyGenerated_AnyGenerated(ev) == "generated" \in DOMAIN ev
OnlyGenerated(ev) == DOMAIN ev = {"generated"}
NotOnlyGenerated(ev) == ~OnlyGenerated(ev)

load_events(f) ==
    CASE f.form = "missing"    -> [raised |-> FALSE, events |-> <<>>]
      [] f.form = "badwrapped" -> [raised |-> FALSE, events |-> <<>>]
      [] f.form = "badflat"    -> [raised |-> TRUE, events |-> <<>>]
      [] OTHER -> [raised |-> FALSE, events |-> SelectSeq(f.rows, NotOnlyGenerated)]

\* lines 67-75: the feed is always written in the wrapped form
save_feed(events) == [form |-> "wrapped", rows |-> events]

\* lines 34-42: what the names ticketmaster and lnsb_fetch are bound to.
\* "from sources import lnsb_fetch" binds the function only when the package
\* re-exports it; otherwise it binds the submodule, and calling a module
\* raises TypeError.  "absent" is the ModuleNotFoundError branch.
Bindings == {"function", "module", "absent"}

\* variant of fetch_from_sources without the try/except around the calls
fetch_from_sources_unguarded(tmPresent, binding, got) ==
    [raised |-> tmPresent \/ binding = "module",
     events |-> IF binding = "function" THEN got.events ELSE <<>>,
     tm     |-> IF tmPresent THEN "raised" ELSE "absent",
     lnsb   |-> IF binding = "module" THEN "raised" ELSE "returned"]

\* lines 80-97.  ticketmaster.fetch(city=...) does not match the signature
\* fetch(cities_or_zips), so the call raises TypeError whenever the module is
\* there; each call is inside "try ... except Exception".
\* got is what lnsb_fetch() does when it is called.
fetch_from_sources(tmPresent, binding, got) ==
    LET tm   == IF tmPresent THEN "raised" ELSE "absent"
        lnsb == IF binding = "module" \/ (binding = "function" /\ got.raised)
                THEN "raised" ELSE "returned"
    IN  [raised |-> FALSE,
         events |-> IF binding = "function" /\ ~got.raised THEN got.events ELSE <<>>,
         tm     |-> tm,
         lnsb   |-> lnsb]

\* variant of Put: the first record stored under a key stays (setdefault)
Put_KeepFirst(d, k, v) ==
    IF \E i \in 1..Len(d) : d[i][1] = k THEN d ELSE Append(d, <<k, v>>)

\* a dict as the sequence of its <<key, value>> items in insertion order:
\* assigning to a key that is there keeps its position
Put(d, k, v) ==
    IF \E i \in 1..Len(d) : d[i][1] = k
    THEN [i \in 1..Len(d) |-> IF d[i][1] = k THEN <<k, v>> ELSE d[i]]
    ELSE Append(d, <<k, v>>)

RECURSIVE PutAll(_, _)
PutAll(d, evs) ==
    IF evs = <<>> THEN d ELSE PutAll(Put(d, Head(evs)["id"], Head(evs)), Tail(evs))

Values(d) == [i \in 1..Len(d) |-> d[i][2]]

HasId(ev) == "id" \in DOMAIN ev

\* variant of merge_dedupe that appends instead of keying by id
merge_no_dedupe(existing, new) ==
    [raised |-> \E i \in 1..Len(new) : ~HasId(new[i]),
     value  |-> SelectSeq(existing, HasId) \o new]

\* lines 100-105: ev["id"] on a record of new without an id is a KeyError
merge_dedupe(existing, new) ==
    IF \E i \in 1..Len(new) : ~HasId(new[i])
    THEN [raised |-> TRUE, value |-> <<>>]
    ELSE [raised |-> FALSE,
          value  |-> Values(PutAll(PutAll(<<>>, SelectSeq(existing, HasId)), new))]

\* The lists of main as objects: heap maps a list's identity to its content.
\* merge_dedupe reads its arguments and returns list(by_id.values()), a list
\* that did not exist before.
ListIds == {"base_events", "fresh_events", "by_id.values"}

\* variant of merge_dedupe_call that rebuilds the existing list in place and
\* returns it
merge_dedupe_in_place(heap, existing, new) ==
    LET r == merge_dedupe(heap[existing], heap[new])
    IN  [raised |-> r.raised,
         heap   |-> [heap EXCEPT ![existing] = r.value],
         result |-> existing]

merge_dedupe_call(heap, existing, new) ==
    LET r == merge_dedupe(heap[existing], heap[new])
    IN  [raised |-> r.raised,
         heap   |-> [heap EXCEPT !["by_id.values"] = r.value],
         result |-> "by_id.values"]

\* Python compares the "start" strings character by character.  All starts
\* have the shape YYYY-MM-DDTHH:MM:SS+hh:00, so the date decides, then the
\* time of day, then the offset, where "+" sorts before "-"
OffLess(a, b) ==
    IF a >= 0 /\ b >= 0 THEN a < b
    ELSE IF a < 0 /\ b < 0 THEN -a < -b
    ELSE a >= 0

IsoLess(x, y) ==
    \/ x.day < y.day
    \/ x.day = y.day /\ x.min < y.min
    \/ x.day = y.day /\ x.min = y.min /\ OffLess(x.off, y.off)

\* line 115: key = ev.get("start", "9999"); "9999" is greater than every start
HasStart(ev) == "start" \in DOMAIN ev

KeyLess(a, b) ==
    IF HasStart(a) /\ HasStart(b) THEN IsoLess(a["start"], b["start"])
    ELSE HasStart(a) /\ ~HasStart(b)

\* list.sort is stable: an element goes behind everything that is not
\* greater than it
RECURSIVE Insert(_, _)
Insert(sorted, ev) ==
    IF sorted = <<>> THEN <<ev>>
    ELSE IF KeyLess(ev, Head(sorted)) THEN <<ev>> \o sorted
    ELSE <<Head(sorted)>> \o Insert(Tail(sorted), ev)

RECURSIVE SortByStart(_)
SortByStart(evs) ==
    IF evs = <<>> THEN <<>>
    ELSE Insert(SortByStart(SubSeq(evs, 1, Len(evs) - 1)), evs[Len(evs)])

\* combined.sort(...) sorts the list object in place
sort_call(heap, list) == [heap EXCEPT ![list] = SortByStart(heap[list])]

\* lines 109-117 as one step: load, fetch, merge, sort, save.  An exception
\* that leaves load_events or merge_dedupe ends the run before save_feed.
\* lines 109-117 as one step: load, fetch, merge, sort, save.  An exception
\* that leaves load_events or merge_dedupe ends the run before save_feed.
\* run records what the step did; main itself keeps none of it.
main_steps(got, loaded, fetched, merged, heap1) ==
    LET crashed == loaded.raised \/ fetched.raised \/ merged.raised
    IN  /\ run.n < MaxRuns
        /\ file' = IF crashed THEN file ELSE save_feed(heap1[merged.result])
        /\ run' =
             IF loaded.raised
             THEN [status |-> "crashed", n |-> run.n + 1, day |-> today,
                   prior |-> file, tm |-> "notcalled", lnsb |-> "notcalled"]
             ELSE [status     |-> IF crashed THEN "crashed" ELSE "done",
                   n          |-> run.n + 1,
                   day        |-> today,
                   prior      |-> file,
                   tm         |-> fetched.tm,
                   lnsb       |-> fetched.lnsb,
                   produced   |-> IF env.binding = "function" THEN got.events ELSE <<>>,
                   base       |-> loaded.events,
                   fresh      |-> fetched.events,
                   baseAfter  |-> heap1["base_events"],
                   freshAfter |-> heap1["fresh_events"],
                   result     |-> merged.result,
                   repeat     |-> run.status = "done" /\ ~crashed
                                  /\ run.fresh = fetched.events]
        /\ UNCHANGED <<today, env, mergeVars, srcVars, tmVars>>

main(got) ==
    \E loaded \in {load_events(file)} :
    \E fetched \in {fetch_from_sources(env.tm, env.binding, got)} :
    \E merged \in {merge_dedupe_call([l \in ListIds |->
                       IF l = "base_events" THEN loaded.events
                       ELSE IF l = "fresh_events" THEN fetched.events
                       ELSE <<>>], "base_events", "fresh_events")} :
    \E heap1 \in {sort_call(merged.heap, merged.result)} :
        main_steps(got, loaded, fetched, merged, heap1)

\* a day passes between two runs
Tick ==
    /\ today < MaxDay
    /\ today' = today + 1
    /\ UNCHANGED <<file, run, env, mergeVars, srcVars, tmVars>>

LnsbId(day, venue) == [src |-> "lnsb", day |-> day, slug |-> VenueSlug(venue)]
OldTitle == [venue |-> Soho, artist |-> <<Sym("old")>>]

\* rows of an events.json that was there before the first run: a record an
\* earlier scrape of day 0 wrote, a Ticketmaster record (UTC offset), a
\* hand-written record without id, one without start, a stray metadata row
FileRows ==
    {[id |-> LnsbId(0, Soho), title |-> OldTitle,
      start |-> [day |-> 0, min |-> 1140, off |-> TzOffset]],
     [id |-> TmId("1"), title |-> OldTitle,
      start |-> [day |-> 1, min |-> 60, off |-> 0]],
     [title |-> OldTitle, start |-> [day |-> 1, min |-> 1140, off |-> TzOffset]],
     [id |-> TmId("2"), title |-> OldTitle],
     [generated |-> "2025-08-06T22:34:18Z"]}

InitFiles ==
    {[form |-> f, rows |-> <<>>] : f \in {"missing", "badwrapped", "badflat"}}
    \cup {[form |-> f, rows |-> rows] :
            f \in {"wrapped", "flat"}, rows \in SeqsUpTo(FileRows, MaxFile)}

\* the lines of the page a run scrapes
PageLines ==
    {PairLine(Soho, Range1(5, 8, "pm")),
     PairLine(Soho, Single(7, "pm")),
     PairLine(MSpace, Range2(8, "pm", 12, "am"))}

Envs == [tm : BOOLEAN, binding : Bindings]

\* what lnsb_fetch() can return on day d, over the outcomes of its request
\* and the pages it may find
LnsbReturns ==
    [d \in 0..MaxDay |->
        {lnsb_fetch(http, lines, [day |-> d, min |-> 0]) :
            http \in HttpOutcomes, lines \in SeqsUpTo(PageLines, MaxPage)}]

RunMain == \E got \in LnsbReturns[today] : main(got)

Init ==
    /\ file \in InitFiles
    /\ today = 0
    /\ run = NoRun
    /\ env \in Envs
    /\ MergeIdle /\ SrcIdle /\ TmIdle

Next == RunMain \/ Tick

Spec == Init /\ [][Next]_vars

----------------------------------------------------------------------------
(* load_events called on its own *)

\* a record a later schema stamped with its own "generated" field
StampedRow == [id |-> TmId("3"), generated |-> "2025-08-06T22:34:18Z"]

LoadFiles ==
    {[form |-> f, rows |-> <<>>] : f \in {"missing", "badwrapped", "badflat"}}
    \cup {[form |-> f, rows |-> rows] :
            f \in {"wrapped", "flat"},
            rows \in SeqsUpTo(FileRows \cup {StampedRow}, MaxLoad)}

CallLoadEvents ==
    /\ call.fn = "load_events" /\ ret = Pending
    /\ ret' = load_events(call.file)
    /\ UNCHANGED <<call, pipeVars, mergeVars, tmVars>>

InitLoad ==
    /\ PipeIdle /\ MergeIdle /\ TmIdle
    /\ call \in {[fn |-> "load_events", file |-> f] : f \in LoadFiles}
    /\ ret = Pending
NextLoad == CallLoadEvents
SpecLoad == InitLoad /\ [][NextLoad]_vars

----------------------------------------------------------------------------
(* merge_dedupe called on its own *)

NewTitle == [venue |-> Soho, artist |-> <<Sym("new")>>]

MergeRows ==
    {[id |-> LnsbId(0, Soho), title |-> OldTitle],
     [id |-> LnsbId(0, Soho), title |-> NewTitle],
     [id |-> LnsbId(0, MSpace), title |-> OldTitle],
     [title |-> OldTitle]}

CallMergeDedupe ==
    /\ mResult = Pending
    /\ mResult' = [status |-> "returned", r |-> merge_dedupe(mExisting, mIncoming)]
    /\ UNCHANGED <<mExisting, mIncoming, pipeVars, srcVars, tmVars>>

InitMerge ==
    /\ PipeIdle /\ SrcIdle /\ TmIdle
    /\ mExisting \in SeqsUpTo(MergeRows, MaxMerge)
    /\ mIncoming \in SeqsUpTo(MergeRows, MaxMerge)
    /\ mResult = Pending

NextMerge == CallMergeDedupe

SpecMerge == InitMerge /\ [][NextMerge]_vars

----------------------------------------------------------------------------
(* CLAIMS *)

Returned == ret # Pending

\* C5: every source adapter's fetch (lnsb_fetch, livenotessb.fetch,
\* ticketmaster.fetch) returns a list whatever the HTTP call does, never
\* raises, and returns the empty list when the request itself fails.
C5_AdaptersNeverRaise ==
    /\ (call.fn \in {"lnsb_fetch", "livenotessb.fetch", "ticketmaster.fetch"}
        /\ Returned) => ~ret.raised
    /\ (call.fn \in {"lnsb_fetch", "livenotessb.fetch"} /\ Returned
        /\ TransportFails(call.http)) => ret.events = <<>>

\* the bounds of a range as the text states them: each bound takes its own
\* marker when both are stated and the single marker otherwise
IsRange1(t) == \E h1 \in Hours, h2 \in Hours, p \in {"am", "pm"} : t = Range1(h1, h2, p)
IsRange2(t) ==
    \E h1 \in Hours, h2 \in Hours, p1 \in {"am", "pm"}, p2 \in {"am", "pm"} :
        t = Range2(h1, p1, h2, p2)
StatedStart(t) == 60 * To24(t[1].v, IF IsRange1(t) THEN t[5].k ELSE t[3].k)
StatedEnd(t)   == 60 * To24(IF IsRange1(t) THEN t[3].v ELSE t[5].v,
                            IF IsRange1(t) THEN t[5].k ELSE t[7].k)

\* C9: midnight rollover: when the resolved end of a range is at or before
\* the resolved start, the end is advanced by 24 hours: "8 pm-12 am" starts
\* at 20:00 on day N and ends at 00:00 on day N+1, "9 pm-1 am" ends at 01:00
\* on day N+1.
C9_MidnightRollover ==
    (/\ call.fn = "parse_event_time" /\ Returned /\ call.date_str = ""
     /\ (IsRange1(call.time_str) \/ IsRange2(call.time_str))
     /\ StatedEnd(call.time_str) <= StatedStart(call.time_str))
    => /\ ret.start = [day |-> call.now.day, min |-> StatedStart(call.time_str),
                       off |-> TzOffset]
       /\ ret.end = [day |-> call.now.day + 1, min |-> StatedEnd(call.time_str),
                     off |-> TzOffset]

\* C10: a range "H1-H2 pm" with H1 < H2 in 1..11 resolves to start H1+12:00
\* and end H2+12:00 on the same day, and an event line carrying that time
\* text yields a record with this start and end.
C10_SingleMarkerRange ==
    \A h1 \in 1..11, h2 \in 1..11 :
        h1 < h2 =>
            LET want == [start |-> [day |-> call.now.day, min |-> 60 * (h1 + 12),
                                    off |-> TzOffset],
                         end   |-> [day |-> call.now.day, min |-> 60 * (h2 + 12),
                                    off |-> TzOffset]]
            IN  /\ (call.fn = "parse_event_time" /\ Returned /\ call.date_str = ""
                    /\ call.time_str = Range1(h1, h2, "pm")) => ret = want
                /\ (call.fn = "lnsb_fetch" /\ Returned /\ call.http = "ok"
                    /\ call.lines = <<PairLine(Soho, Range1(h1, h2, "pm"))>>)
                   => /\ Len(ret.events) = 1
                      /\ ret.events[1].start = want.start
                      /\ ret.events[1].end = want.end

\* the ids of the records of evs that have one
IdsIn(evs) == {evs[i]["id"] : i \in {j \in 1..Len(evs) : HasId(evs[j])}}

Occurrences(evs, k) ==
    Cardinality({i \in 1..Len(evs) : HasId(evs[i]) /\ evs[i]["id"] = k})

\* the last record of evs with id k
LastWith(evs, k) ==
    evs[CHOOSE i \in 1..Len(evs) :
            /\ HasId(evs[i]) /\ evs[i]["id"] = k
            /\ \A j \in (i + 1)..Len(evs) : ~(HasId(evs[j]) /\ evs[j]["id"] = k)]

Merged == mResult # Pending /\ ~mResult.r.raised

\* C1: merge_dedupe(existing, incoming) returns a list in which every id of
\* the inputs occurs exactly once and no other id occurs; for an id that
\* incoming holds, the record returned is the last record of incoming with
\* that id, also when existing holds the id.
C1_MergeLastWriteWins ==
    Merged =>
        /\ \A i \in 1..Len(mResult.r.value) : HasId(mResult.r.value[i])
        /\ IdsIn(mResult.r.value) = IdsIn(mExisting) \cup IdsIn(mIncoming)
        /\ \A k \in IdsIn(mResult.r.value) : Occurrences(mResult.r.value, k) = 1
        /\ \A k \in IdsIn(mIncoming) :
               \E i \in 1..Len(mResult.r.value) :
                   mResult.r.value[i] = LastWith(mIncoming, k)

\* an id that existing holds, and that incoming holds twice with different
\* records, was merged
C1_Witness ==
    /\ Merged
    /\ \E k \in IdsIn(mExisting) \cap IdsIn(mIncoming) :
           /\ Occurrences(mIncoming, k) = 2
           /\ mIncoming[1] # mIncoming[2]
           /\ LastWith(mExisting, k) # LastWith(mIncoming, k)

\* the instant a start denotes, in minutes
Instant(s) == (s.day * 1440 + s.min) - 60 * s.off

\* C2: after a run the events of the written feed all have a start and are
\* in ascending order of the instant their start denotes.
C2_FeedAscendingByInstant ==
    run.status = "done" =>
        /\ \A i \in 1..Len(file.rows) : HasStart(file.rows[i])
        /\ \A i \in 1..Len(file.rows), j \in 1..Len(file.rows) :
               i < j => Instant(file.rows[i]["start"]) <= Instant(file.rows[j]["start"])

\* start lies more than one day before every moment of local day d
Stale(start, d) == Instant(start) + 1440 < Instant([day |-> d, min |-> 0, off |-> TzOffset])

\* C3: no record whose start is more than one day before the merge time is
\* in the merged output of a run.
C3_FutureOnlyFilter ==
    run.status = "done" =>
        \A i \in 1..Len(file.rows) :
            HasStart(file.rows[i]) => ~Stale(file.rows[i]["start"], run.day)

HoldsEvent(f) ==
    /\ f.form \in {"wrapped", "flat"}
    /\ \E i \in 1..Len(f.rows) : NotOnlyGenerated(f.rows[i])

\* C4: a run that gets no event from any source does not replace a file that
\* held at least one event by one that holds none.
C4_NoEmptyOverwrite ==
    (run.status = "done" /\ run.fresh = <<>> /\ HoldsEvent(run.prior))
        => HoldsEvent(file)

AdapterFailed == run.status \in {"done", "crashed"} /\ "raised" \in {run.tm, run.lnsb}

\* C6: when an adapter fails inside fetch_from_sources, the run still
\* completes: fetch_from_sources returns exactly the events the other
\* adapter produced, and the feed is written and holds a record for each of
\* them.
C6_AdapterFailureIsolated ==
    AdapterFailed =>
        /\ run.status = "done"
        /\ run.fresh = run.produced
        /\ file.form = "wrapped"
        /\ \A i \in 1..Len(run.produced) : run.produced[i]["id"] \in IdsIn(file.rows)

\* the Ticketmaster call failed and LiveNotesSB produced events
C6_Witness ==
    /\ AdapterFailed /\ run.tm = "raised" /\ run.lnsb = "returned"
    /\ run.produced # <<>>
    /\ run.status = "done"
    /\ \A i \in 1..Len(run.produced) : run.produced[i]["id"] \in IdsIn(file.rows)

\* C7: a second run in succession that fetches the same events as the first
\* leaves the saved events list as the first run saved it.
C7_Idempotent ==
    (run.status = "done" /\ run.repeat) => file.rows = run.prior.rows

\* a second run with the same, non-empty, fetch on a feed of several records
C7_Witness ==
    /\ run.status = "done" /\ run.repeat /\ run.n = 2
    /\ run.fresh # <<>>
    /\ Len(file.rows) >= 2
    /\ file.rows = run.prior.rows

\* C8: the lists handed to merge_dedupe hold after the run what they held
\* before it, and the merged list is a list of its own.
C8_MergePure ==
    run.status = "done" =>
        /\ run.baseAfter = run.base
        /\ run.freshAfter = run.fresh
        /\ run.result \notin {"base_events", "fresh_events"}

\* a run that merged two non-empty lists into a list that differs from both
C8_Witness ==
    /\ run.status = "done"
    /\ run.base # <<>> /\ run.fresh # <<>>
    /\ file.rows # run.base /\ file.rows # run.fresh
    /\ run.baseAfter = run.base /\ run.freshAfter = run.fresh

----------------------------------------------------------------------------
(* Date resolution *)

\* days from 2025-01-01 to the date
RECURSIVE DaysBeforeYear(_)
DaysBeforeYear(y) ==
    IF y <= 2025 THEN 0
    ELSE DaysBeforeYear(y - 1) + (IF IsLeap(y - 1) THEN 366 ELSE 365)
RECURSIVE DaysBeforeMonth(_, _)
DaysBeforeMonth(y, m) ==
    IF m <= 1 THEN 0 ELSE DaysBeforeMonth(y, m - 1) + DaysInMonth(y, m - 1)
Ordinal(date) == DaysBeforeYear(date.y) + DaysBeforeMonth(date.y, date.m) + date.d

\* the year the contract gives a month/day: the current year when the date is
\* on or after today - 2 days, the next year otherwise
ResolvedYear(now, m, d) ==
    IF Ordinal([y |-> now.y, m |-> m, d |-> d]) >= Ordinal(now) - 2
    THEN now.y ELSE now.y + 1

DateHeadings(els) == {i \in 1..Len(els) : els[i].tag = "h4" /\ els[i].isdate}

\* C11: a header's month/day resolves to the nearest calendar date on or
\* after today - 2 days, the current year first and then the next year
\* (today - 2 days stays in the current year, today - 3 days goes to the
\* following year), and the weekday word of the header has no effect on the
\* resolved date.
C11_DateResolution ==
    /\ (call.fn = "livenotessb.fetch" /\ Returned /\ ~ret.raised)
       => \A k \in 1..Len(ret.events) :
            \E i \in DateHeadings(call.els) :
                LET h == call.els[i]
                IN  ret.events[k].id.date =
                        [y |-> ResolvedYear(call.today, h.month, h.dom),
                         m |-> h.month, d |-> h.dom]
    /\ (call.fn = "parse_event_time" /\ Returned)
       => ret.start.day = parse_event_time(call.now, "", call.time_str).start.day

----------------------------------------------------------------------------
(* The id scheme of the scrapers *)

\* the calendar date of a record: the date part of its start
RecordDate(ev) ==
    IF "day" \in DOMAIN ev.start THEN <<ev.start.day>>
    ELSE <<ev.start.y, ev.start.m, ev.start.d>>

SameKey(a, b) ==
    RecordDate(a) = RecordDate(b) /\ a.venue = b.venue /\ a.title = b.title

\* two records of the same date that differ in venue or in title
Distinguished(a, b) ==
    RecordDate(a) = RecordDate(b) /\ (a.venue # b.venue \/ a.title # b.title)

Scraped == call.fn \in {"lnsb_fetch", "livenotessb.fetch"} /\ Returned /\ ~ret.raised

\* C12: the id scheme has no accidental collisions: two records of a scraper
\* with the same date but different venues, or the same venue but different
\* titles, get different ids, also when the venues or titles differ only
\* after the slug truncation length; and the id is a function of the record's
\* (date, venue, title) alone, independent of the wall clock.
C12_IdScheme ==
    /\ Scraped
       => \A i, j \in 1..Len(ret.events) :
            /\ Distinguished(ret.events[i], ret.events[j])
               => ret.events[i].id # ret.events[j].id
            /\ SameKey(ret.events[i], ret.events[j])
               => ret.events[i].id = ret.events[j].id
    /\ (Scraped /\ call.fn = "lnsb_fetch")
       => \A now \in Nows :
            LET other == lnsb_fetch(call.http, call.lines, now).events
            IN  \A i \in 1..Len(ret.events), j \in 1..Len(other) :
                    SameKey(ret.events[i], other[j]) => ret.events[i].id = other[j].id

----------------------------------------------------------------------------
(* Re-loading the feed *)

\* the positions of the rows that are not exactly {"generated": ...}
Kept(rows) == {i \in 1..Len(rows) : DOMAIN rows[i] # {"generated"}}

\* the position of the k-th such row
KthKept(rows, k) ==
    CHOOSE i \in Kept(rows) : Cardinality({j \in Kept(rows) : j <= i}) = k

Loaded == call.fn = "load_events" /\ Returned

\* C13: load_events accepts the wrapped form {generated, events} and a bare
\* array of records alike and returns the records of the file in file order,
\* with every element that is exactly {"generated": ...} removed and every
\* other element kept; a missing file loads as the empty list without error.
C13_LoadFiltersGenerated ==
    /\ (Loaded /\ call.file.form \in {"wrapped", "flat"})
       => /\ ~ret.raised
          /\ Len(ret.events) = Cardinality(Kept(call.file.rows))
          /\ \A k \in 1..Len(ret.events) :
                ret.events[k] = call.file.rows[KthKept(call.file.rows, k)]
    /\ (Loaded /\ call.file.form = "missing")
       => ~ret.raised /\ ret.events = <<>>

\* a bare array is loaded in which a stray metadata row stands between two
\* records, one of them carrying a "generated" field of its own
C13_Witness ==
    /\ Loaded /\ call.file.form = "flat"
    /\ call.file.rows = <<StampedRow, [generated |-> "2025-08-06T22:34:18Z"],
                          [id |-> TmId("2"), title |-> OldTitle]>>
    /\ ret.events = <<StampedRow, [id |-> TmId("2"), title |-> OldTitle]>>

----------------------------------------------------------------------------
(* Ticketmaster pagination *)

TmCalled == call.fn = "ticketmaster.fetch"
TmEnded  == tmPc \in {"done", "raised"}

\* the totalPages a logged answer reports; none counts as 0
Reported(e) == IF e.kind = "ok" /\ e.hasTotal THEN e.totalPages ELSE 0

\* the answers after which the loop is to stop
StopsAt(e) == e.kind # "ok" \/ e.page >= Reported(e) - 1

\* pages 0, 1, 2, ... of one location, none twice
PagesInOrder ==
    \A k \in 1..Len(tmLog) :
        /\ tmLog[k].page = k - 1
        /\ tmLog[k].loc = tmLog[1].loc
        /\ tmLog[k].name = call.locs[tmLog[k].loc]

\* the loop went on after every answer but the stopping one, and left the
\* location right after that one
StopsAtFirst ==
    /\ \A k \in 1..(Len(tmLog) - 1) : ~StopsAt(tmLog[k])
    /\ tmLog # <<>>
       => LET last == tmLog[Len(tmLog)]
          IN  IF StopsAt(last)
              THEN \/ TmEnded
                   \/ tmPc = "request" /\ tmPage = 0 /\ LocIndex = last.loc + 1
              ELSE tmPc = "request" /\ tmPage = last.page + 1 /\ LocIndex = last.loc

\* the server reports a totalPages on the first page and never a larger one
ReportsAndNeverGrows ==
    /\ tmLog # <<>> /\ tmLog[1].kind = "ok" /\ tmLog[1].hasTotal
    /\ \A j, k \in 1..Len(tmLog) : j < k => Reported(tmLog[k]) <= Reported(tmLog[j])

\* C14 as stated: for each location the pages are requested in the order
\* 0, 1, 2, ... with none twice, the loop stops at the first non-200 answer
\* or after the first page whose index is >= totalPages - 1 (no totalPages:
\* after page 0), and when the server reports a totalPages that does not grow
\* there are at most totalPages requests for the location.
C14_AtMostTotalPagesRequests ==
    TmCalled =>
        /\ PagesInOrder
        /\ StopsAtFirst
        /\ ReportsAndNeverGrows => Len(tmLog) <= tmLog[1].totalPages

RequestBound(total) == IF total < 1 THEN 1 ELSE total

TmPagination ==
    TmCalled =>
        /\ PagesInOrder
        /\ StopsAtFirst
        /\ ReportsAndNeverGrows => Len(tmLog) <= RequestBound(tmLog[1].totalPages)

\* C14 amended: as above, with at most max(1, totalPages) requests for the
\* location (page 0 is always requested, also when totalPages is 0), and
\* fetch ends: it returns, or a request that fails raises.
C14_PaginationTerminates == []TmPagination /\ (TmCalled ~> TmEnded)

\* fetch returned after pages 0, 1 and 2 of its second location, the server
\* reporting 3 pages each time
C14_Witness ==
    /\ TmCalled /\ tmPc = "done" /\ Len(call.locs) = 2
    /\ Len(tmLog) = 3
    /\ \A k \in 1..3 : tmLog[k].loc = 2 /\ tmLog[k].kind = "ok" /\ Reported(tmLog[k]) = 3
====
